---- MODULE Spec2Model ----
(***************************************************************************)
(* A model of Blockly.Field (core/field.js): the abstract editable field   *)
(* of a block.  One field is modelled together with the two module-wide    *)
(* cache variables and the collaborators it talks to (its owning block,    *)
(* the change-event bus, the SVG text element and its width measurement).  *)
(*                                                                         *)
(* JavaScript values are records [t, n, s]: t is the type tag, n the       *)
(* number (or 0/1 for a boolean), s the characters of a string.  A string  *)
(* is a sequence of one-character strings; the characters U+00A0, U+2026   *)
(* and U+200F are written "NBSP", "ELLIPSIS" and "RLM", and any other      *)
(* character outside ASCII, and the vertical tab, by its code point, as in *)
(* "U+000B" or "U+FEFF".                                                   *)
(***************************************************************************)
EXTENDS Integers, Sequences, FiniteSets

VARIABLES
  text_,            \* Field.prototype.text_
  sourceBlock_,     \* Field.prototype.sourceBlock_ ("null" or a block)
  visible_,         \* Field.prototype.visible_
  validator_,       \* Field.prototype.validator_ ("null" or a validator)
  fieldGroup_,      \* this.fieldGroup_: "null", or the group's style.display
  textElement_,     \* this.textElement_: NoElement, or its text and class
  mouseUpWrapper_,  \* this.mouseUpWrapper_: TRUE when a listener is bound
  width,            \* this.size_.width
  cacheWidths_,     \* Blockly.Field.cacheWidths_: NoCache, or a map key -> width
  cacheReference_,  \* Blockly.Field.cacheReference_
  eventsEnabled,    \* Blockly.Events.isEnabled()
  last,             \* what the last call did (its arguments, trace and result)
  history           \* what has happened so far (read by the properties only)

vars == <<text_, sourceBlock_, visible_, validator_, fieldGroup_, textElement_,
          mouseUpWrapper_, width, cacheWidths_, cacheReference_, eventsEnabled,
          last, history>>

-----------------------------------------------------------------------------
(* JavaScript values *)

Null == [t |-> "null", n |-> 0, s |-> <<>>]
Undefined == [t |-> "undefined", n |-> 0, s |-> <<>>]
Bool(b) == [t |-> "boolean", n |-> IF b THEN 1 ELSE 0, s |-> <<>>]
Num(k) == [t |-> "number", n |-> k, s |-> <<>>]
Str(cs) == [t |-> "string", n |-> 0, s |-> cs]
NaN == [t |-> "NaN", n |-> 0, s |-> <<>>]

NBSP == "NBSP"
ELLIPSIS == "ELLIPSIS"
RLM == "RLM"

\* The characters the regular expression \s and the string-to-number
\* conversion treat as white space: the WhiteSpace and LineTerminator code
\* points of ECMAScript.
WhiteSpace ==
  { "\t", "\n", "U+000B", "\f", "\r", " ", NBSP, "U+1680",
    "U+2000", "U+2001", "U+2002", "U+2003", "U+2004", "U+2005", "U+2006",
    "U+2007", "U+2008", "U+2009", "U+200A", "U+2028", "U+2029", "U+202F",
    "U+205F", "U+3000", "U+FEFF" }
IsWhitespace(c) == c \in WhiteSpace

Digits == <<"0", "1", "2", "3", "4", "5", "6", "7", "8", "9">>
IsDigit(c) == \E i \in 1..10 : Digits[i] = c
DigitVal(c) == (CHOOSE i \in 1..10 : Digits[i] = c) - 1

RECURSIVE NatToString(_)
NatToString(k) ==
  IF k < 10 THEN <<Digits[k + 1]>>
  ELSE Append(NatToString(k \div 10), Digits[(k % 10) + 1])

RECURSIVE DigitsToNat(_)
DigitsToNat(cs) ==
  IF cs = <<>> THEN 0
  ELSE 10 * DigitsToNat(SubSeq(cs, 1, Len(cs) - 1)) + DigitVal(cs[Len(cs)])

\* String(x) of a number of decimal digits ds with the decimal point behind
\* the first point of them: an exponent is written from 10^21 on and below
\* 10^-6.
Zeros(k) == [i \in 1..k |-> "0"]
DecimalString(ds, point) ==
  IF point > 21 \/ point <= -6
  THEN <<Head(ds)>> \o (IF Len(ds) > 1 THEN <<".">> \o Tail(ds) ELSE <<>>)
       \o (IF point < 1 THEN <<"e", "-">> \o NatToString(1 - point)
           ELSE <<"e", "+">> \o NatToString(point - 1))
  ELSE IF point >= Len(ds) THEN ds \o Zeros(point - Len(ds))
  ELSE IF point > 0
       THEN SubSeq(ds, 1, point) \o <<".">> \o SubSeq(ds, point + 1, Len(ds))
  ELSE <<"0", ".">> \o Zeros(-point) \o ds

\* String(x).  (A number is an integer or one of the numbers StringToNumber
\* gives, see below; String(x) of a number below 2^-1022 is not modelled.)
ToStr(v) ==
  CASE v.t = "string" -> v.s
    [] v.t = "number" -> IF v.n < 0 THEN <<"-">> \o NatToString(-v.n)
                         ELSE NatToString(v.n)
    [] v.t = "-0" -> <<"0">>
    [] v.t \in {"fraction", "large"} ->
         LET ds == NatToString(IF v.n < 0 THEN -v.n ELSE v.n)
             point == IF v.t = "fraction" THEN Len(ds) - DigitsToNat(v.s)
                      ELSE Len(ds) + DigitsToNat(v.s)
         IN (IF v.n < 0 THEN <<"-">> ELSE <<>>) \o DecimalString(ds, point)
    [] v.t = "Infinity" ->
         (IF v.n < 0 THEN <<"-">> ELSE <<>>)
         \o <<"I", "n", "f", "i", "n", "i", "t", "y">>
    [] v.t = "boolean" -> IF v.n = 1 THEN <<"t", "r", "u", "e">>
                          ELSE <<"f", "a", "l", "s", "e">>
    [] v.t = "undefined" -> <<"u", "n", "d", "e", "f", "i", "n", "e", "d">>
    [] v.t = "null" -> <<"n", "u", "l", "l">>
    [] v.t = "NaN" -> <<"N", "a", "N">>

RECURSIVE TrimLeft(_)
TrimLeft(cs) ==
  IF cs # <<>> /\ IsWhitespace(Head(cs)) THEN TrimLeft(Tail(cs)) ELSE cs

RECURSIVE TrimRight(_)
TrimRight(cs) ==
  IF cs # <<>> /\ IsWhitespace(cs[Len(cs)])
  THEN TrimRight(SubSeq(cs, 1, Len(cs) - 1)) ELSE cs

\* The position of the first character of cs that is in set, 0 when none is.
IndexOf(cs, set) ==
  IF \E i \in 1..Len(cs) : cs[i] \in set
  THEN CHOOSE i \in 1..Len(cs) :
         cs[i] \in set /\ \A j \in 1..(i - 1) : cs[j] \notin set
  ELSE 0

AllDigits(cs) == \A i \in 1..Len(cs) : IsDigit(cs[i])

\* The digits of the literals 0b.., 0o.. and 0x.., in either case.
RadixDigits ==
  <<"0", "1", "2", "3", "4", "5", "6", "7", "8", "9",
    "a", "b", "c", "d", "e", "f">>
UpperRadixDigits ==
  <<"0", "1", "2", "3", "4", "5", "6", "7", "8", "9",
    "A", "B", "C", "D", "E", "F">>
IsRadixDigit(c, radix) ==
  \E i \in 1..radix : RadixDigits[i] = c \/ UpperRadixDigits[i] = c
RadixDigitVal(c) ==
  (CHOOSE i \in 1..16 : RadixDigits[i] = c \/ UpperRadixDigits[i] = c) - 1

RECURSIVE RadixToNat(_, _)
RadixToNat(cs, radix) ==
  IF cs = <<>> THEN 0
  ELSE radix * RadixToNat(SubSeq(cs, 1, Len(cs) - 1), radix)
       + RadixDigitVal(cs[Len(cs)])

RECURSIVE Pow10(_)
Pow10(k) == IF k = 0 THEN 1 ELSE 10 * Pow10(k - 1)

StripLeadingZeros(ds) ==
  LET nz == {i \in 1..Len(ds) : ds[i] # "0"}
  IN IF nz = {} THEN <<>>
     ELSE SubSeq(ds, CHOOSE i \in nz : \A k \in nz : i <= k, Len(ds))

StripTrailingZeros(ds) ==
  LET nz == {i \in 1..Len(ds) : ds[i] # "0"}
  IN IF nz = {} THEN <<>>
     ELSE SubSeq(ds, 1, CHOOSE i \in nz : \A k \in nz : i >= k)

\* The numbers that are not integers TLC has.  The numbers of JavaScript are
\* IEEE 754 doubles:
\*   NegativeZero      -0, equal (==) to 0;
\*   Fraction(m, k)    m / 10^k, with m not a multiple of 10 and k > 0;
\*   Large(m, e)       m * 10^e beyond MaxInt, with m not a multiple of 10;
\*   Subnormal(s, j)   s * j * 2^-1074 for a sign s and digits j, below 2^-1022;
\*   Infinity(s)       s * Infinity.
\* A decimal of at most 15 significant digits between 2^-1022 and the largest
\* double is one double, and no other such decimal is the same double.
NegativeZero == [t |-> "-0", n |-> 0, s |-> <<>>]
Zero(sign) == IF sign < 0 THEN NegativeZero ELSE Num(0)
Fraction(m, k) == [t |-> "fraction", n |-> m, s |-> NatToString(k)]
Large(m, e) == [t |-> "large", n |-> m, s |-> NatToString(e)]
Subnormal(sign, j) == [t |-> "subnormal", n |-> sign, s |-> j]
Infinity(sign) == [t |-> "Infinity", n |-> sign, s |-> <<>>]

\* The largest integer of TLC.
MaxInt == 2147483647

\* The first nine digits of 2^1024 - 2^970 (1.797693134862315807e308), from
\* which a number rounds to Infinity, and of 2^-1022
\* (2.2250738585072014e-308), the smallest normal double.
OverflowMantissa == 179769313
NormalMantissa == 222507385
OverflowExponent == 308
NormalExponent == 308
\* A number below 10^-324 is below 2^-1075 and rounds to zero.
ZeroExponent == 324
\* A long natural number is the sequence of its digits in base LimbBase
\* (its limbs), the most significant first.
LimbDigits == 8
LimbBase == 100000000

\* 2^1074: the smallest double is 2^-1074.
TwoTo1074 ==
  <<
    2024, 2253307, 31061835, 24953467, 18917307, 4955664,
    97641421, 18356901, 35802743, 3395679, 95346891, 96038370,
    14371244, 95187077, 86431681, 19113898, 8737385, 79347686,
    70133999, 40738509, 92151742, 42765663, 61364466, 90774209,
    32163412, 39767678, 47274506, 85620074, 83424692, 69861810,
    33556491, 59556340, 81005651, 23587695, 52333414, 61523050,
    25321863, 27508646, 626330, 77077410, 93494784 >>

\* a + b for two long numbers (the carry into a limb is 1 when the nearest
\* limb behind it whose sum is not LimbBase - 1 has a sum of LimbBase or more).
Add(a, b) ==
  LET n == (IF Len(a) > Len(b) THEN Len(a) ELSE Len(b)) + 1
      sum == [i \in 1..n |->
                (IF i > n - Len(a) THEN a[i - (n - Len(a))] ELSE 0)
                + (IF i > n - Len(b) THEN b[i - (n - Len(b))] ELSE 0)]
      carry(i) == \E k \in (i + 1)..n :
                    /\ sum[k] >= LimbBase
                    /\ \A l \in (i + 1)..(k - 1) : sum[l] = LimbBase - 1
      all == [i \in 1..n |-> (sum[i] + IF carry(i) THEN 1 ELSE 0) % LimbBase]
  IN SubSeq(all, IF all[1] = 0 THEN 2 ELSE 1, n)

\* ls * m for a long number ls.
RECURSIVE Times(_, _)
Times(ls, m) ==
  IF m = 0 THEN <<>>
  ELSE LET half == Times(ls, m \div 2)
       IN IF half = <<>> THEN ls
          ELSE IF m % 2 = 1 THEN Add(Add(half, half), ls)
          ELSE Add(half, half)

\* The decimal digits of a long number.
LimbsToDigits(ls) ==
  LET ds(l) == NatToString(l)
      digit(l, k) == IF k > LimbDigits - Len(ds(l))
                     THEN ds(l)[k - (LimbDigits - Len(ds(l)))] ELSE "0"
  IN StripLeadingZeros(
       [i \in 1..(LimbDigits * Len(ls)) |->
          digit(ls[((i - 1) \div LimbDigits) + 1], ((i - 1) % LimbDigits) + 1)])

\* The decimal digits of ds + 1.
RECURSIVE Successor(_)
Successor(ds) ==
  IF ds = <<>> THEN <<"1">>
  ELSE IF ds[Len(ds)] = "9"
       THEN Append(Successor(SubSeq(ds, 1, Len(ds) - 1)), "0")
       ELSE Append(SubSeq(ds, 1, Len(ds) - 1),
                   Digits[DigitVal(ds[Len(ds)]) + 2])

\* sign * p / 10^k for decimal digits p, rounded to an integer (to the even
\* one of two that are as near), as a multiple of 2^-1074.
RoundedMultiple(sign, p, k) ==
  LET whole == IF Len(p) > k THEN SubSeq(p, 1, Len(p) - k) ELSE <<>>
      part == IF Len(p) >= k THEN SubSeq(p, Len(p) - k + 1, Len(p))
              ELSE Zeros(k - Len(p)) \o p
      up == \/ DigitVal(part[1]) > 5
            \/ /\ DigitVal(part[1]) = 5
               /\ \/ \E i \in 2..k : part[i] # "0"
                  \/ whole # <<>> /\ DigitVal(whole[Len(whole)]) % 2 = 1
  IN IF up THEN Subnormal(sign, Successor(whole))
     ELSE IF whole = <<>> THEN Zero(sign)
     ELSE Subnormal(sign, whole)

\* sign * m / 10^k below 2^-1022, rounded to the nearest multiple of 2^-1074:
\* m * 2^1074 / 10^k rounded to an integer.
SubnormalNumber(sign, m, k) ==
  RoundedMultiple(sign, LimbsToDigits(Times(TwoTo1074, m)), k)

\* The double nearest to sign * m * 10^e, for m that is 0 or not a multiple
\* of 10.
Scaled(sign, m, e) ==
  LET d == Len(NatToString(m))
      top == d - 1 + e
      m9 == IF d <= 9 THEN m * Pow10(9 - d) ELSE m \div 10
  IN IF m = 0 THEN Zero(sign)
     ELSE IF \/ top > OverflowExponent
             \/ /\ top = OverflowExponent
                /\ \/ m9 > OverflowMantissa
                   \/ m9 = OverflowMantissa /\ d > 9 /\ m % 10 >= 5
          THEN Infinity(sign)
     ELSE IF top < -ZeroExponent THEN Zero(sign)
     ELSE IF \/ top < -NormalExponent
             \/ top = -NormalExponent /\ m9 <= NormalMantissa
          THEN SubnormalNumber(sign, m, -e)
     ELSE IF e < 0 THEN Fraction(sign * m, -e)
     ELSE IF e <= 9 /\ m <= MaxInt \div Pow10(e)
          THEN Num(sign * m * Pow10(e))
     ELSE Large(sign * m, e)

\* The number of sign and the significant digits sig, which are the digits
\* all without the zeros at their end, times 10^e.
SignificandToNumber(sign, all, sig, e) ==
  Scaled(sign, DigitsToNat(sig), e + (Len(all) - Len(sig)))

\* The number of sign, the digits ip before and fp behind the decimal point,
\* and the exponent exp.  (A literal of more significant digits than MaxInt
\* has is not modelled.)
DigitsToNumber(sign, ip, fp, exp) ==
  IF AllDigits(ip) /\ AllDigits(fp) /\ ip \o fp # <<>>
  THEN SignificandToNumber(sign, StripLeadingZeros(ip \o fp),
                           StripTrailingZeros(StripLeadingZeros(ip \o fp)),
                           exp - Len(fp))
  ELSE NaN

\* The number of a mantissa (digits and an optional fraction, the decimal
\* point at dot or dot = 0) and an exponent.
MantissaToNumber(sign, mant, dot, exp) ==
  DigitsToNumber(sign,
                 IF dot = 0 THEN mant ELSE SubSeq(mant, 1, dot - 1),
                 IF dot = 0 THEN <<>> ELSE SubSeq(mant, dot + 1, Len(mant)),
                 exp)

\* The exponent part of a literal (what follows its e): an optional sign and
\* digits.
ExponentDigits(part) ==
  IF part # <<>> /\ Head(part) \in {"-", "+"} THEN Tail(part) ELSE part
ExponentOk(part) ==
  ExponentDigits(part) # <<>> /\ AllDigits(ExponentDigits(part))
\* An exponent that cannot matter: the digits of a mantissa mant move the
\* exponent by Len(mant) at most, so with an exponent of ExponentLimit(mant)
\* or more a number that is not zero is beyond 10^ZeroExponent (negative
\* exponent: below 10^-ZeroExponent), and it is infinite (zero) however much
\* larger the exponent is.
ExponentLimit(mant) == Len(mant) + 2 * ZeroExponent
\* a < b for two sequences of digits without zeros at their front.
DigitsLess(a, b) ==
  \/ Len(a) < Len(b)
  \/ /\ Len(a) = Len(b)
     /\ \E i \in 1..Len(a) :
          /\ DigitVal(a[i]) < DigitVal(b[i])
          /\ \A j \in 1..(i - 1) : a[j] = b[j]
\* The number written by the digits ds, or limit when it is limit or more.
ExponentNat(ds, limit) ==
  IF DigitsLess(StripLeadingZeros(ds), NatToString(limit))
  THEN DigitsToNat(StripLeadingZeros(ds)) ELSE limit
ExponentValue(part, limit) ==
  IF Head(part) = "-" THEN -ExponentNat(ExponentDigits(part), limit)
  ELSE ExponentNat(ExponentDigits(part), limit)

\* The number of an unsigned decimal literal whose e is at ePos (ePos = 0
\* when it has none).
LiteralToNumber(sign, u, ePos) ==
  IF ePos = 0 THEN MantissaToNumber(sign, u, IndexOf(u, {"."}), 0)
  ELSE IF ExponentOk(SubSeq(u, ePos + 1, Len(u)))
       THEN MantissaToNumber(sign, SubSeq(u, 1, ePos - 1),
                             IndexOf(SubSeq(u, 1, ePos - 1), {"."}),
                             ExponentValue(SubSeq(u, ePos + 1, Len(u)),
                                           ExponentLimit(SubSeq(u, 1, ePos - 1))))
  ELSE NaN

\* Number(s) of an unsigned decimal literal: digits, an optional fraction and
\* an optional exponent.
DecimalToNumber(sign, u) == LiteralToNumber(sign, u, IndexOf(u, {"e", "E"}))

\* The radix of an unsigned literal 0b.., 0o.. or 0x.., 0 for another string.
Radix(body) ==
  IF Len(body) >= 2 /\ body[1] = "0"
  THEN (IF body[2] \in {"b", "B"} THEN 2
        ELSE IF body[2] \in {"o", "O"} THEN 8
        ELSE IF body[2] \in {"x", "X"} THEN 16 ELSE 0)
  ELSE 0

RadixToNumber(rest, radix) ==
  IF rest # <<>> /\ \A i \in 1..Len(rest) : IsRadixDigit(rest[i], radix)
  THEN Num(RadixToNat(rest, radix)) ELSE NaN

SignedToNumber(sign, u) ==
  IF u = <<"I", "n", "f", "i", "n", "i", "t", "y">> THEN Infinity(sign)
  ELSE DecimalToNumber(sign, u)

\* Number(s) of a string without white space around it: the empty string is
\* 0; then an unsigned binary, octal or hexadecimal literal, or an optional
\* sign and Infinity or a decimal literal; anything else is NaN.  (A binary,
\* octal or hexadecimal literal beyond MaxInt is not modelled.)
TrimmedToNumber(body) ==
  IF body = <<>> THEN Num(0)
  ELSE IF Radix(body) # 0
       THEN RadixToNumber(SubSeq(body, 3, Len(body)), Radix(body))
  ELSE IF Head(body) = "-" THEN SignedToNumber(-1, Tail(body))
  ELSE IF Head(body) = "+" THEN SignedToNumber(1, Tail(body))
  ELSE SignedToNumber(1, body)

\* Number(s): white space around the string is dropped.
StringToNumber(cs) == TrimmedToNumber(TrimRight(TrimLeft(cs)))

\* x == y for two numbers: 0 and -0 are equal, NaN is equal to nothing.
SameNumber(x, y) ==
  /\ x # NaN
  /\ x = y \/ {x, y} \subseteq {Num(0), NegativeZero}

\* oldText == newText where oldText is a string (abstract equality).
StrictEquals(cs, v) == v.t = "string" /\ v.s = cs
LooseEquals(cs, v) ==
  CASE v.t = "string" -> v.s = cs
    [] v.t = "boolean" -> SameNumber(StringToNumber(cs), Num(v.n))
    [] v.t \in {"number", "-0", "fraction", "large", "subnormal", "Infinity"} ->
         SameNumber(StringToNumber(cs), v)
    [] OTHER -> FALSE

-----------------------------------------------------------------------------
(* Constants of Blockly.BlockSvg that the field reads, and the model's bounds *)

FIELD_WIDTH == 48
EDITABLE_FIELD_PADDING == 6
MAX_DISPLAY_LENGTH == 4

\* cacheReference_ is kept within -MaxUnderflow..MaxCacheReference.
MaxCacheReference == 2
MaxUnderflow == 1

-----------------------------------------------------------------------------
(* Collaborators *)

\* The owning blocks a field can be bound to, with their RTL and rendered flags.
Blocks == {"ltrRendered", "rtlRendered", "ltrUnrendered"}
BlockRTL(b) == b = "rtlRendered"
BlockRendered(b) == b \in {"ltrRendered", "rtlRendered"}

\* The values callers pass to setValue and setText.
Values ==
  { Null, Undefined, Num(0), Num(5),
    Str(<<>>), Str(<<"U+000B", "5", "e", "0">>), Str(<<"a", " ", "b", "c">>),
    Str(<<" ", "b", "c", "d", "e">>) }

\* The text the constructor is given.
ConstructorTexts == { Str(<<>>), Str(<<"a", " ", "b", "c">>) }

\* Validators: what a validator function returns for a text.
Trim(cs) == TrimRight(TrimLeft(cs))
ApplyValidator(f, cs) ==
  CASE f = "reject" -> Null
    [] f = "keep" -> Undefined
    [] f = "trim" -> Str(Trim(cs))
    [] f = "bang" -> Str(Append(cs, "!"))
    [] OTHER -> Str(cs)
ClassValidators == {"identity", "reject", "keep", "trim"}
UserValidators == {"reject", "keep", "bang"}

\* textElement_.getComputedTextLength(): the width the rendering surface
\* measures for a text content in a display class.
ComputedTextLength(content, class) ==
  IF class = "blocklyText" THEN 7 * Len(content) ELSE 6 * Len(content)

NoElement == [exists |-> FALSE, textContent |-> <<>>, class |-> ""]
NoCache == [active |-> FALSE, map |-> <<>>]
EmptyCache == [active |-> TRUE, map |-> <<>>]

\* One step of a call's trace: what happened, the stored text at that moment,
\* and (for an event or a validator call) the values carried.
Step(what, cs, old, new) == [step |-> what, text |-> cs, old |-> old, new |-> new]
Plain(what, cs) == Step(what, cs, Null, Null)

Last(op, arg, trace, result, threw) ==
  [op |-> op, arg |-> arg, trace |-> trace, result |-> result, threw |-> threw]

-----------------------------------------------------------------------------
(* Rendering *)

\* text.substring(0, end): a negative end counts as 0.
Substring0(cs, end) ==
  SubSeq(cs, 1, IF end < 0 THEN 0 ELSE IF end > Len(cs) THEN Len(cs) ELSE end)

\* text.replace(/\s/g, Blockly.Field.NBSP)
ReplaceWhitespace(cs) ==
  [i \in 1..Len(cs) |-> IF IsWhitespace(cs[i]) THEN NBSP ELSE cs[i]]

\* The text updateTextNode_ cuts for display, before white space is replaced.
TruncatedTextOffByOne(cs, maxDisplayLength) ==
  IF Len(cs) >= maxDisplayLength
  THEN Append(Substring0(cs, maxDisplayLength - 2), ELLIPSIS)
  ELSE cs
TruncatedText(cs, maxDisplayLength) ==
  IF Len(cs) > maxDisplayLength
  THEN Append(Substring0(cs, maxDisplayLength - 2), ELLIPSIS)
  ELSE cs

\* The class updateTextNode_ gives the text element.
DisplayClass(cs, maxDisplayLength) ==
  IF Len(cs) > maxDisplayLength THEN "blocklyText blocklyTextTruncated"
  ELSE "blocklyText"

\* The content of the text node updateTextNode_ builds for text cs on a block
\* of writing direction rtl.
DisplayText(cs, maxDisplayLength, rtl) ==
  LET cut == ReplaceWhitespace(TruncatedText(cs, maxDisplayLength))
      marked == IF rtl /\ cut # <<>> THEN Append(cut, RLM) ELSE cut
  IN IF marked = <<>> THEN <<NBSP>> ELSE marked

\* The text element after updateTextNode_ (which also sets size_.width to 0);
\* without a text element it returns early and changes nothing.
UpdatedTextNode(el, cs, block) ==
  IF ~el.exists THEN el
  ELSE [exists |-> TRUE,
        textContent |-> DisplayText(cs, MAX_DISPLAY_LENGTH, BlockRTL(block)),
        class |-> DisplayClass(cs, MAX_DISPLAY_LENGTH)]
WidthAfterUpdateTextNode(el, w) == IF ~el.exists THEN w ELSE 0

\* The cache key render_ builds; the text content never holds a line feed, so
\* the pair stands for textContent + '\n' + className.
CacheKey(el) == <<el.textContent, el.class>>

\* Blockly.Field.cacheWidths_ && Blockly.Field.cacheWidths_[key]
CacheHit(cache, key) ==
  cache.active /\ key \in DOMAIN cache.map /\ cache.map[key] # 0

\* The text width render_ uses for a text element: the cached width, else the
\* measured one, else (the measurement throws) eight units per character.
TextWidth(el, cache, throws) ==
  IF CacheHit(cache, CacheKey(el)) THEN cache.map[CacheKey(el)]
  ELSE IF throws THEN Len(el.textContent) * 8
  ELSE ComputedTextLength(el.textContent, el.class)

\* size_.width after render_ (EDITABLE is true, the base class has neither a
\* drop-down arrow nor a box).
RenderWidthWhenHidden(vis, el, cache, throws) ==
  IF el.exists THEN TextWidth(el, cache, throws) + EDITABLE_FIELD_PADDING
  ELSE 0
RenderWidth(vis, el, cache, throws) ==
  IF vis /\ el.exists THEN TextWidth(el, cache, throws) + EDITABLE_FIELD_PADDING
  ELSE 0

\* The width cache after render_.
RenderCache(vis, el, cache, throws) ==
  IF vis /\ el.exists /\ cache.active /\ ~CacheHit(cache, CacheKey(el))
  THEN [cache EXCEPT !.map =
          [k \in DOMAIN cache.map \cup {CacheKey(el)} |->
             IF k = CacheKey(el) THEN TextWidth(el, cache, throws)
             ELSE cache.map[k]]]
  ELSE cache

-----------------------------------------------------------------------------
(* Values and validation *)

getText == text_
getValue == getText

\* setText assigns text_ unless the argument is null or its string is the
\* stored text.
SetTextChangesOnNull(cs, v) == ToStr(v) # cs
SetTextChanges(cs, v) == v # Null /\ ToStr(v) # cs
TextAfterSetTextTrimmed(cs, v) ==
  IF SetTextChanges(cs, v) THEN Trim(ToStr(v)) ELSE cs
TextAfterSetText(cs, v) == IF SetTextChanges(cs, v) THEN ToStr(v) ELSE cs

\* What setText does after its two early returns, in order.
SetTextTrace(cs, v, el, block) ==
  IF ~SetTextChanges(cs, v) THEN <<>>
  ELSE <<Plain("text_", ToStr(v))>>
       \o (IF el.exists THEN <<Plain("updateTextNode_", ToStr(v))>> ELSE <<>>)
       \o (IF block # "null" /\ BlockRendered(block)
           THEN <<Plain("render", ToStr(v)), Plain("bumpNeighbours_", ToStr(v))>>
           ELSE <<>>)

\* setValue goes on past its two early returns.
SetValuePassesStrict(cs, v) == v # Null /\ ~StrictEquals(cs, v)
SetValuePasses(cs, v) == v # Null /\ ~LooseEquals(cs, v)

\* What setValue does, in order: the change event, then setText.
SetValueTraceLate(cs, v, el, block, enabled) ==
  IF ~SetValuePasses(cs, v) THEN <<>>
  ELSE <<Plain("setText", cs)>> \o SetTextTrace(cs, v, el, block)
       \o (IF block # "null" /\ enabled
           THEN <<Step("fire", TextAfterSetText(cs, v), Str(cs), v)>> ELSE <<>>)
SetValueTrace(cs, v, el, block, enabled) ==
  IF ~SetValuePasses(cs, v) THEN <<>>
  ELSE (IF block # "null" /\ enabled
        THEN <<Step("fire", cs, Str(cs), v)>> ELSE <<>>)
       \o <<Plain("setText", cs)>> \o SetTextTrace(cs, v, el, block)

\* callValidator: the text after the class validator, or Null when it rejects.
AfterClassValidatorNoReject(cv, cs) ==
  LET classResult == ApplyValidator(cv, cs)
  IN IF classResult \in {Null, Undefined} THEN Str(cs) ELSE classResult
AfterClassValidator(cv, cs) ==
  LET classResult == ApplyValidator(cv, cs)
  IN IF classResult = Null THEN Null
     ELSE IF classResult # Undefined THEN classResult ELSE Str(cs)

\* callValidator: the calls of the user validator, each with its argument.
UserValidatorCalls(cv, uv, cs) ==
  IF AfterClassValidator(cv, cs) = Null \/ uv = "null" THEN <<>>
  ELSE <<Step("userValidator", cs, Null, AfterClassValidator(cv, cs))>>

callValidator(cv, uv, cs) ==
  LET text == AfterClassValidator(cv, cs)
  IN IF text = Null THEN Null
     ELSE IF uv = "null" THEN text
     ELSE LET userResult == ApplyValidator(uv, text.s)
          IN IF userResult = Null THEN Null
             ELSE IF userResult # Undefined THEN userResult ELSE text

-----------------------------------------------------------------------------
(* The field after construction: new Blockly.Field(text) *)

Init ==
  /\ \E v \in ConstructorTexts :
       /\ text_ = IF SetValuePasses(<<>>, v) THEN TextAfterSetText(<<>>, v)
                  ELSE <<>>
       /\ last = Last("new", v, SetValueTrace(<<>>, v, NoElement, "null", TRUE),
                      Undefined, FALSE)
  /\ sourceBlock_ = "null"
  /\ visible_ = TRUE
  /\ validator_ = "null"
  /\ fieldGroup_ = "null"
  /\ textElement_ = NoElement
  /\ mouseUpWrapper_ = FALSE
  /\ width = FIELD_WIDTH
  /\ cacheWidths_ = NoCache
  /\ cacheReference_ = 0
  /\ eventsEnabled = TRUE
  /\ history = [disposed |-> FALSE, balanced |-> TRUE, hiddenWidth |-> 0]

-----------------------------------------------------------------------------
(* Operations.  Each action is one call, run to its return or its throw.    *)
(* The block's render() and bumpNeighbours_(), the event bus and the DOM are *)
(* collaborators: a call of theirs is a step of the trace in last.  The      *)
(* base class is modelled: EDITABLE is true, there is no argType_, no        *)
(* positionArrow and no box_.                                                *)

\* goog.asserts.assert(!this.sourceBlock_): a bound field throws.
AssertNothing(cur) == TRUE
AssertUnbound(cur) == cur = "null"

setSourceBlock(block) ==
  /\ sourceBlock_' = IF ~AssertUnbound(sourceBlock_) THEN sourceBlock_
                     ELSE block
  /\ last' = Last("setSourceBlock", Str(<<block>>), <<>>, Undefined,
                  ~AssertUnbound(sourceBlock_))
  /\ UNCHANGED <<text_, visible_, validator_, fieldGroup_, textElement_,
                 mouseUpWrapper_, width, cacheWidths_, cacheReference_,
                 eventsEnabled>>

\* render_ as setVisible, getSize and init run it; measureThrows says whether
\* getComputedTextLength throws if it is called.
RenderTrace(vis, el, cache, measureThrows) ==
  IF ~(vis /\ el.exists) THEN <<Plain("render_", text_)>>
  ELSE IF CacheHit(cache, CacheKey(el)) THEN <<Plain("render_cached", text_)>>
  ELSE IF measureThrows THEN <<Plain("render_heuristic", text_)>>
  ELSE <<Plain("render_measured", text_)>>

\* init: returns at once when the group exists; throws on this.sourceBlock_.RTL
\* when the field is bound to no block, after the group was created.
AlreadyInitialized(group) == group # "null"

init ==
  LET done == AlreadyInitialized(fieldGroup_)
      throws == ~done /\ sourceBlock_ = "null"
      fresh == [exists |-> TRUE, textContent |-> <<>>, class |-> "blocklyText"]
      sized == IF width = 0
               THEN RenderWidth(visible_, textElement_, cacheWidths_, FALSE)
               ELSE width
      sizing == IF width = 0
                THEN RenderTrace(visible_, textElement_, cacheWidths_, FALSE)
                ELSE <<>>
  IN /\ fieldGroup_' = IF done THEN fieldGroup_
                       ELSE IF visible_ THEN "" ELSE "none"
     /\ textElement_' = IF done \/ throws THEN textElement_
                        ELSE UpdatedTextNode(fresh, text_, sourceBlock_)
     /\ mouseUpWrapper_' = IF done \/ throws THEN mouseUpWrapper_ ELSE TRUE
     /\ width' = IF done THEN width ELSE IF throws THEN sized ELSE 0
     /\ last' = Last("init", Null,
                     IF done THEN <<>>
                     ELSE IF throws THEN sizing
                     ELSE sizing \o <<Plain("updateTextNode_", text_)>>,
                     Undefined, throws)
     /\ UNCHANGED <<text_, sourceBlock_, visible_, validator_, cacheWidths_,
                    cacheReference_, eventsEnabled>>

dispose ==
  /\ mouseUpWrapper_' = FALSE
  /\ sourceBlock_' = "null"
  /\ fieldGroup_' = "null"
  /\ textElement_' = NoElement
  /\ validator_' = "null"
  /\ last' = Last("dispose", Null, <<>>, Undefined, FALSE)
  /\ UNCHANGED <<text_, visible_, width, cacheWidths_, cacheReference_,
                 eventsEnabled>>

setVisible(visible, measureThrows) ==
  LET same == visible_ = visible
      root == fieldGroup_ # "null"
  IN /\ visible_' = visible
     /\ fieldGroup_' = IF same \/ ~root THEN fieldGroup_
                       ELSE IF visible THEN "block" ELSE "none"
     /\ width' = IF same \/ ~root THEN width
                 ELSE RenderWidth(visible, textElement_, cacheWidths_,
                                  measureThrows)
     /\ cacheWidths_' = IF same \/ ~root THEN cacheWidths_
                        ELSE RenderCache(visible, textElement_, cacheWidths_,
                                         measureThrows)
     /\ last' = Last("setVisible", Bool(visible),
                     IF same \/ ~root THEN <<>>
                     ELSE RenderTrace(visible, textElement_, cacheWidths_,
                                      measureThrows),
                     Undefined, FALSE)
     /\ UNCHANGED <<text_, sourceBlock_, validator_, textElement_,
                    mouseUpWrapper_, cacheReference_, eventsEnabled>>

getSize(measureThrows) ==
  LET stale == width = 0
  IN /\ width' = IF stale
                 THEN RenderWidth(visible_, textElement_, cacheWidths_,
                                  measureThrows)
                 ELSE width
     /\ cacheWidths_' = IF stale
                        THEN RenderCache(visible_, textElement_, cacheWidths_,
                                         measureThrows)
                        ELSE cacheWidths_
     /\ last' = Last("getSize", Null,
                     IF stale
                     THEN RenderTrace(visible_, textElement_, cacheWidths_,
                                      measureThrows)
                     ELSE <<>>,
                     Num(width'), FALSE)
     /\ UNCHANGED <<text_, sourceBlock_, visible_, validator_, fieldGroup_,
                    textElement_, mouseUpWrapper_, cacheReference_,
                    eventsEnabled>>

setValidator(handler) ==
  /\ validator_' = handler
  /\ last' = Last("setValidator", Str(<<handler>>), <<>>, Undefined, FALSE)
  /\ UNCHANGED <<text_, sourceBlock_, visible_, fieldGroup_, textElement_,
                 mouseUpWrapper_, width, cacheWidths_, cacheReference_,
                 eventsEnabled>>

\* callValidator on a field whose class validator is cv.
CallValidator(cv, cs) ==
  /\ last' = Last("callValidator", Str(cs),
                  <<Plain(cv, text_)>> \o UserValidatorCalls(cv, validator_, cs),
                  callValidator(cv, validator_, cs), FALSE)
  /\ UNCHANGED <<text_, sourceBlock_, visible_, validator_, fieldGroup_,
                 textElement_, mouseUpWrapper_, width, cacheWidths_,
                 cacheReference_, eventsEnabled>>

startCache ==
  /\ cacheReference_ < MaxCacheReference
  /\ cacheReference_' = cacheReference_ + 1
  /\ cacheWidths_' = IF ~cacheWidths_.active THEN EmptyCache ELSE cacheWidths_
  /\ last' = Last("startCache", Null, <<>>, Undefined, FALSE)
  /\ UNCHANGED <<text_, sourceBlock_, visible_, validator_, fieldGroup_,
                 textElement_, mouseUpWrapper_, width, eventsEnabled>>

\* if (!Blockly.Field.cacheReference_) Blockly.Field.cacheWidths_ = null
CacheAfterStopUncounted(cache, reference) == NoCache
CacheAfterStop(cache, reference) ==
  IF reference = 0 THEN NoCache ELSE cache

stopCache ==
  /\ cacheReference_ > -MaxUnderflow
  /\ cacheReference_' = cacheReference_ - 1
  /\ cacheWidths_' = CacheAfterStop(cacheWidths_, cacheReference_')
  /\ last' = Last("stopCache", Null, <<>>, Undefined, FALSE)
  /\ UNCHANGED <<text_, sourceBlock_, visible_, validator_, fieldGroup_,
                 textElement_, mouseUpWrapper_, width, eventsEnabled>>

setText(v) ==
  /\ text_' = TextAfterSetText(text_, v)
  /\ textElement_' = IF SetTextChanges(text_, v)
                     THEN UpdatedTextNode(textElement_, text_', sourceBlock_)
                     ELSE textElement_
  /\ width' = IF SetTextChanges(text_, v)
              THEN WidthAfterUpdateTextNode(textElement_, width) ELSE width
  /\ last' = Last("setText", v,
                  SetTextTrace(text_, v, textElement_, sourceBlock_),
                  Undefined, FALSE)
  /\ UNCHANGED <<sourceBlock_, visible_, validator_, fieldGroup_,
                 mouseUpWrapper_, cacheWidths_, cacheReference_, eventsEnabled>>

setValue(v) ==
  LET passes == SetValuePasses(getValue, v)
  IN /\ text_' = IF passes THEN TextAfterSetText(text_, v) ELSE text_
     /\ textElement_' = IF passes /\ SetTextChanges(text_, v)
                        THEN UpdatedTextNode(textElement_, text_', sourceBlock_)
                        ELSE textElement_
     /\ width' = IF passes /\ SetTextChanges(text_, v)
                 THEN WidthAfterUpdateTextNode(textElement_, width) ELSE width
     /\ last' = Last("setValue", v,
                     SetValueTrace(getValue, v, textElement_, sourceBlock_,
                                   eventsEnabled),
                     Undefined, FALSE)
     /\ UNCHANGED <<sourceBlock_, visible_, validator_, fieldGroup_,
                    mouseUpWrapper_, cacheWidths_, cacheReference_,
                    eventsEnabled>>

\* Blockly.Events.disable() / enable(), as the field sees them.
SetEventsEnabled ==
  /\ eventsEnabled' = ~eventsEnabled
  /\ last' = Last("events", Bool(eventsEnabled'), <<>>, Undefined, FALSE)
  /\ UNCHANGED <<text_, sourceBlock_, visible_, validator_, fieldGroup_,
                 textElement_, mouseUpWrapper_, width, cacheWidths_,
                 cacheReference_>>

StringValues == {v \in Values : v.t = "string"}

\* The text the rendering specification sets (longer than MAX_DISPLAY_LENGTH;
\* the constructor gives the short ones) and the blocks it binds.
RenderValues == { Str(<<" ", "b", "c", "d", "e">>) }
RenderBlocks == {"ltrRendered", "rtlRendered"}

-----------------------------------------------------------------------------------------------------------------------------------------------------
(* Specifications.  The field is driven by its callers; each specification  *)
(* lets the callers use one group of the field's operations, and records in *)
(* history what its properties need of the past.                            *)

\* dispose has run.
TrackLifecycle ==
  history' = [history EXCEPT !.disposed = @ \/ last'.op = "dispose"]

\* balanced: no stopCache has run without a startCache before it.
\* hiddenWidth: the width an initialized field had when setVisible(false) hid
\* it, 0 when it was stale or the text node has been rebuilt since.
TrackRender ==
  history' =
    [history EXCEPT
       !.balanced = @ /\ ~(last'.op = "stopCache" /\ cacheReference_ <= 0),
       !.hiddenWidth =
          IF last'.op = "setVisible" /\ visible_ /\ ~visible_'
          THEN (IF textElement_.exists THEN width ELSE 0)
          ELSE IF textElement_' # textElement_ THEN 0 ELSE @]

\* Values, events and the lifecycle, with the width cache left inactive.
Next ==
  \/ \E b \in Blocks : setSourceBlock(b) /\ TrackLifecycle
  \/ init /\ TrackLifecycle
  \/ dispose /\ TrackLifecycle
  \/ \E vis \in BOOLEAN, t \in BOOLEAN : setVisible(vis, t) /\ TrackLifecycle
  \/ \E t \in BOOLEAN : getSize(t) /\ TrackLifecycle
  \/ \E v \in Values : setText(v) /\ TrackLifecycle
  \/ \E v \in Values : setValue(v) /\ TrackLifecycle
  \/ SetEventsEnabled /\ TrackLifecycle

Spec == Init /\ [][Next]_vars

\* Rendering, visibility and the width cache.
RenderNext ==
  \/ \E b \in RenderBlocks : setSourceBlock(b) /\ TrackRender
  \/ init /\ TrackRender
  \/ dispose /\ TrackRender
  \/ \E vis \in BOOLEAN, t \in BOOLEAN : setVisible(vis, t) /\ TrackRender
  \/ \E t \in BOOLEAN : getSize(t) /\ TrackRender
  \/ \E v \in RenderValues : setText(v) /\ TrackRender
  \/ startCache /\ TrackRender
  \/ stopCache /\ TrackRender

RenderSpec == Init /\ [][RenderNext]_vars

\* Validation.
ValidatorNext ==
  \/ \E h \in UserValidators \cup {"null"} :
       setValidator(h) /\ UNCHANGED history
  \/ \E cv \in ClassValidators, v \in StringValues :
       CallValidator(cv, v.s) /\ UNCHANGED history
  \/ dispose /\ UNCHANGED history

ValidatorSpec == Init /\ [][ValidatorNext]_vars

-----------------------------------------------------------------------------
(* Properties *)

Steps(trace, what) == {i \in 1..Len(trace) : trace[i].step = what}
Initialized == fieldGroup_ # "null" /\ textElement_.exists /\ mouseUpWrapper_
FieldState == <<text_, sourceBlock_, visible_, validator_, fieldGroup_,
                textElement_, mouseUpWrapper_, width, cacheWidths_,
                cacheReference_, eventsEnabled>>

\* C1, as stated: after setValue(x) with x neither null nor undefined nor
\* loosely equal to the current value, getValue() returns x itself.
C1_ReturnsArgument ==
  [][(/\ last'.op = "setValue"
      /\ last'.arg \notin {Null, Undefined}
      /\ ~LooseEquals(getValue, last'.arg))
     => Str(getValue') = last'.arg]_vars

\* C1, amended: after such a setValue(x), getValue() returns String(x), which
\* is x itself when x is a string.
C1_ReturnsStringOfArgument ==
  [][(/\ last'.op = "setValue"
      /\ last'.arg \notin {Null, Undefined}
      /\ ~LooseEquals(getValue, last'.arg))
     => /\ getValue' = ToStr(last'.arg)
        /\ (last'.arg.t = "string" => Str(getValue') = last'.arg)]_vars

\* A setValue(5) on a field whose text was not "5" has stored the string "5".
C1_Witness ==
  /\ last.op = "setValue"
  /\ last.arg = Num(5)
  /\ Steps(last.trace, "text_") # {}
  /\ getValue = <<"5">>

\* C2: setValue(v) with v loosely equal to the current value changes nothing
\* of the field, fires no event, rebuilds no text node and calls neither
\* render nor bumpNeighbours_.
C2_LooseEqualIsNoOp ==
  [][(/\ last'.op = "setValue"
      /\ LooseEquals(getValue, last'.arg))
     => /\ last'.trace = <<>>
        /\ ~last'.threw
        /\ UNCHANGED FieldState]_vars

\* setValue(0) has just returned early on a field whose text is "" (or "\v5e0"
\* for 5): equal only under coercion.
C2_Witness ==
  /\ last.op = "setValue"
  /\ last.arg.t = "number"
  /\ ToStr(last.arg) # text_
  /\ StringToNumber(text_) = last.arg
  /\ last.trace = <<>>

\* C3: in a setValue call that goes past the two early returns, a change
\* event is fired if and only if the field is bound and events are enabled;
\* it is fired once, while getText() is still the old text, and carries the
\* old and the new value.  When the call changes the text, the event comes
\* before the text assignment, the text-node refresh (made whenever the text
\* element exists) and the block's render and bumpNeighbours_ (made whenever
\* the block is rendered), all inside the call.
C3_EventBeforeMutation ==
  [][(/\ last'.op = "setValue"
      /\ last'.arg # Null
      /\ ~LooseEquals(getValue, last'.arg))
     => LET tr == last'.trace
            fires == Steps(tr, "fire")
            after == Steps(tr, "text_") \cup Steps(tr, "updateTextNode_")
                     \cup Steps(tr, "render") \cup Steps(tr, "bumpNeighbours_")
        IN /\ (fires # {}) <=> (sourceBlock_ # "null" /\ eventsEnabled)
           /\ Cardinality(fires) <= 1
           /\ \A i \in fires :
                /\ tr[i].text = text_
                /\ tr[i].old = Str(text_)
                /\ tr[i].new = last'.arg
                /\ \A j \in after : i < j
           /\ IF text_' = text_ THEN after = {}
              ELSE /\ Cardinality(Steps(tr, "text_")) = 1
                   /\ \A j \in Steps(tr, "text_") : tr[j].text = text_'
                   /\ (Steps(tr, "updateTextNode_") # {}) <=> textElement_.exists
                   /\ (Steps(tr, "render") # {})
                        <=> (sourceBlock_ # "null"
                             /\ BlockRendered(sourceBlock_))
                   /\ \A j \in Steps(tr, "render") :
                        \A k \in Steps(tr, "text_")
                                 \cup Steps(tr, "updateTextNode_") : k < j]_vars

\* A setValue on an initialized field of a rendered block, with events
\* enabled, has fired its event and then refreshed and rendered.
C3_Witness ==
  /\ last.op = "setValue"
  /\ Steps(last.trace, "fire") # {}
  /\ Steps(last.trace, "updateTextNode_") # {}
  /\ Steps(last.trace, "render") # {}
  /\ last.trace[1].text # text_

\* C4: while every stopCache so far was preceded by its startCache, the width
\* cache exists exactly when the reference count is above 0, and a step tears
\* it down exactly when it is the stopCache that brings the count to 0.
C4_CacheReferenceCounted ==
  [][history'.balanced
     => /\ cacheWidths_'.active <=> cacheReference_' > 0
        /\ (cacheWidths_.active /\ ~cacheWidths_'.active)
             <=> (last'.op = "stopCache" /\ cacheReference_' = 0)]_vars

\* startCache, startCache, stopCache: the count is back at 1 and the cache,
\* which holds a width by now, is still there.
C4_Witness ==
  /\ history.balanced
  /\ last.op = "stopCache"
  /\ cacheReference_ = 1
  /\ cacheWidths_.active
  /\ DOMAIN cacheWidths_.map # {}

\* C5: callValidator returns null without calling the user validator when the
\* class validator rejects; otherwise the class result (the text itself when
\* it is undefined) goes to the user validator, if one is set, exactly once,
\* and the result follows the same rules.
C5_ValidatorChain ==
  last.op = "callValidator"
  => LET cs == last.arg.s
         classResult == ApplyValidator(last.trace[1].step, cs)
         text == IF classResult = Undefined THEN Str(cs) ELSE classResult
         calls == Steps(last.trace, "userValidator")
         userResult == ApplyValidator(validator_, text.s)
     IN IF classResult = Null THEN last.result = Null /\ calls = {}
        ELSE IF validator_ = "null" THEN last.result = text /\ calls = {}
        ELSE /\ Cardinality(calls) = 1
             /\ \A i \in calls : last.trace[i].new = text
             /\ last.result = IF userResult = Null THEN Null
                              ELSE IF userResult = Undefined THEN text
                              ELSE userResult

\* The class validator has rejected a text on a field that has a user
\* validator, and the user validator was not called.
C5_Witness ==
  /\ last.op = "callValidator"
  /\ last.trace[1].step = "reject"
  /\ validator_ # "null"
  /\ last.result = Null
  /\ Steps(last.trace, "userValidator") = {}

\* The class validator has replaced the text and the user validator was
\* called with the replacement and replaced it again.
C5_WitnessChained ==
  /\ last.op = "callValidator"
  /\ last.trace[1].step = "trim"
  /\ validator_ = "bang"
  /\ last.arg.s # Trim(last.arg.s)
  /\ last.result = Str(Append(Trim(last.arg.s), "!"))

\* The first k characters of cs, each white-space character as NBSP.
Shown(cs, k) ==
  [i \in 1..k |-> IF cs[i] \in WhiteSpace THEN NBSP ELSE cs[i]]

\* C6, as stated: an initialized field shows its text with white space as
\* NBSP and nothing else changed when it has at most maxDisplayLength
\* characters, and its first maxDisplayLength - 2 characters and an ellipsis,
\* in the truncated class, when it has more.
C6_RendersTextOrTruncation ==
  textElement_.exists
  => IF Len(getText) <= MAX_DISPLAY_LENGTH
     THEN /\ textElement_.textContent = Shown(getText, Len(getText))
          /\ textElement_.class = "blocklyText"
     ELSE /\ textElement_.textContent
               = Shown(getText, MAX_DISPLAY_LENGTH - 2) \o <<ELLIPSIS>>
          /\ textElement_.class = "blocklyText blocklyTextTruncated"

\* C6, amended: as stated, except that an empty text is shown as one NBSP and
\* that on a right-to-left block a non-empty text is followed by U+200F; the
\* stored text stays the whole text that was set.
C6_RendersTextTruncationMarks ==
  /\ textElement_.exists
     => LET long == Len(getText) > MAX_DISPLAY_LENGTH
            body == IF long
                    THEN Shown(getText, MAX_DISPLAY_LENGTH - 2) \o <<ELLIPSIS>>
                    ELSE Shown(getText, Len(getText))
        IN /\ textElement_.textContent
                = IF getText = <<>> THEN <<NBSP>>
                  ELSE IF BlockRTL(sourceBlock_) THEN body \o <<RLM>>
                  ELSE body
           /\ textElement_.class = IF long THEN "blocklyText blocklyTextTruncated"
                                   ELSE "blocklyText"
  /\ (last.op \in {"setText", "setValue"} /\ Steps(last.trace, "text_") # {})
     => getText = ToStr(last.arg)

\* " bcde" was set on an initialized left-to-right field: two characters and
\* the ellipsis are shown, the stored text has all five.
C6_Witness ==
  /\ textElement_.exists
  /\ last.op = "setText"
  /\ getText = <<" ", "b", "c", "d", "e">>
  /\ textElement_.textContent = <<NBSP, "b", ELLIPSIS>>
  /\ textElement_.class = "blocklyText blocklyTextTruncated"

\* The last call was a setVisible that changed the visibility of a field with
\* a display group, and so ran render_.
JustToggled(visible) ==
  last.op = "setVisible" /\ last.arg = Bool(visible) /\ last.trace # <<>>

\* C7, as stated: a getSize() right after setVisible(false) returns width 0,
\* in every field state; a getSize() right after the setVisible(true) that
\* shows the field again returns the width it had for this text when it was
\* hidden.
C7_HiddenIsZeroShownIsRestored ==
  [][last'.op = "getSize"
     => /\ (last.op = "setVisible" /\ last.arg = Bool(FALSE))
             => last'.result = Num(0)
        /\ (JustToggled(TRUE) /\ history.hiddenWidth # 0)
             => last'.result = Num(history.hiddenWidth)]_vars

\* C7, amended: for a field that has its text element, a getSize() right
\* after setVisible(false) returns width 0.  The setVisible(true) that shows
\* the field again does not bring a remembered width back: it runs render_,
\* which takes the text width of the text shown from the active cache when
\* the cache has a width for its key (which can be the eight units per
\* character of an earlier measurement that threw), and otherwise measures
\* it, or takes eight units per character when the measurement throws, and
\* stores what it took in the active cache; the getSize() right after it
\* returns that width, the padding added, without rendering again, and never
\* 0.
C7_InitializedHiddenIsZero ==
  [][/\ (last'.op = "getSize" /\ textElement_.exists)
          => /\ (last.op = "setVisible" /\ last.arg = Bool(FALSE))
                  => last'.result = Num(0)
             /\ JustToggled(TRUE)
                  => /\ last'.trace = <<>>
                     /\ last'.result = Num(width)
                     /\ last'.result # Num(0)
     /\ (/\ last'.op = "setVisible" /\ last'.arg = Bool(TRUE)
         /\ last'.trace # <<>> /\ textElement_.exists)
          => LET key == <<textElement_.textContent, textElement_.class>>
                 held == /\ cacheWidths_.active
                         /\ key \in DOMAIN cacheWidths_.map
                         /\ cacheWidths_.map[key] # 0
                 taken == width' - EDITABLE_FIELD_PADDING
             IN /\ held => /\ taken = cacheWidths_.map[key]
                           /\ cacheWidths_' = cacheWidths_
                /\ ~held
                     => /\ taken
                             \in { 8 * Len(textElement_.textContent),
                                   ComputedTextLength(textElement_.textContent,
                                                      textElement_.class) }
                        /\ cacheWidths_.active
                             => /\ cacheWidths_'.active
                                /\ key \in DOMAIN cacheWidths_'.map
                                /\ cacheWidths_'.map[key] = taken]_vars

\* An initialized field was measured, hidden (getSize gave 0 in between or
\* not) and shown again, and getSize has returned the width it had before.
C7_Witness ==
  /\ last.op = "getSize"
  /\ textElement_.exists
  /\ visible_
  /\ history.hiddenWidth # 0
  /\ last.result = Num(history.hiddenWidth)
  /\ last.trace = <<>>

\* The same, and getSize has returned another width than the field had
\* before it was hidden.
C7_WitnessOtherWidth ==
  /\ last.op = "getSize"
  /\ textElement_.exists
  /\ visible_
  /\ history.hiddenWidth # 0
  /\ last.result # Num(history.hiddenWidth)
  /\ last.result # Num(0)
  /\ last.trace = <<>>

\* An initialized hidden field has answered getSize with width 0.
C7_WitnessHidden ==
  /\ last.op = "getSize"
  /\ textElement_.exists
  /\ ~visible_
  /\ history.hiddenWidth # 0
  /\ last.result = Num(0)

\* C8: setSourceBlock on a field that is bound to a block fails with an
\* assertion error and leaves the field, its sourceBlock_ included, as it was.
C8_RebindFails ==
  [][(last'.op = "setSourceBlock" /\ sourceBlock_ # "null")
     => /\ last'.threw
        /\ sourceBlock_' = sourceBlock_
        /\ UNCHANGED FieldState]_vars

\* A field bound to one block has refused another block.
C8_Witness ==
  /\ last.op = "setSourceBlock"
  /\ last.threw
  /\ sourceBlock_ # "null"
  /\ last.arg # Str(<<sourceBlock_>>)

\* C9, as stated: init() on an initialized field changes nothing, and once
\* dispose() has run the field is never again initialized (display group,
\* text node and bound listener).
C9_DisposedIsTerminal ==
  [][/\ (last'.op = "init" /\ Initialized) => UNCHANGED FieldState
     /\ history'.disposed => ~Initialized']_vars

\* C10, as stated: setValue and setText with null or undefined fire no event,
\* raise no error and leave the field as it was.
C10_NullOrUndefinedIsNoOp ==
  [][(last'.op \in {"setValue", "setText"} /\ last'.arg \in {Null, Undefined})
     => /\ last'.trace = <<>>
        /\ ~last'.threw
        /\ UNCHANGED FieldState]_vars

\* C10, amended: setValue and setText with null fire no event, raise no error
\* and leave the field as it was; undefined is no such argument: it raises no
\* error but is stored as the text "undefined" like any other value.
C10_NullIsNoOp ==
  [][last'.op \in {"setValue", "setText"}
     => /\ ~last'.threw
        /\ last'.arg = Null
             => last'.trace = <<>> /\ UNCHANGED FieldState
        /\ last'.arg = Undefined => getText' = ToStr(Undefined)]_vars

\* setText(null) has returned on a field whose text is not "null".
C10_Witness ==
  /\ last.op = "setText"
  /\ last.arg = Null
  /\ last.trace = <<>>
  /\ getText # ToStr(Null)
  /\ textElement_.exists

\* C11: the text width render_ takes from the active cache for the text shown
\* is the width it would use for it with the cache inactive: when the
\* measurement of this call does not throw, the measured width, whatever
\* earlier measurements did.
C11_CachedWidthIsUncachedWidth ==
  [][(/\ last'.op \in {"getSize", "setVisible"}
      /\ Steps(last'.trace, "render_cached") # {})
     => width' = RenderWidth(visible_', textElement_, NoCache, FALSE)]_vars

\* C12: a setValue call that fires a change event changes the stored text.
C12_EventMeansChange ==
  [][(last'.op = "setValue" /\ Steps(last'.trace, "fire") # {})
     => getText' # getText]_vars

====
